---- MODULE Spec2Model ----
(***************************************************************************)
(* Model of NymSocketManager (src/nymSocketManager.go): the lifecycle of   *)
(* one manager instance used concurrently by application goroutines and by *)
(* the receive loops (SocketListener) it spawns.                           *)
(*                                                                         *)
(* Every action is one step of one goroutine.  A goroutine is identified   *)
(* by a number: application goroutines are the members of Threads, the     *)
(* receive loop spawned for the i-th dialed connection is goroutine i.     *)
(* Heap objects (connections, channels) are identified by the number of    *)
(* the dial that created them; Nil is the Go nil.                          *)
(***************************************************************************)
EXTENDS Integers, Sequences, FiniteSets, TLC

\* Number of successful dials explored (a dial beyond it fails).
MaxDials == 2

\* Application goroutines calling the public methods.
Threads == {101}

\* One receive loop per dialed connection.
Listeners == 1..MaxDials

Ctx == Threads \cup Listeners

\* The nil pointer / nil channel.
Nil == 0

\* An unlocked sync.Mutex (no holder).
NoCtx == 0

\* Addresses the peer may hand out; strings are sequences of bytes and the
\* two have different lengths.
Addresses == {<<1>>, <<2, 2>>}

\* Wire discriminators consumed by messageDispatcher.
NymSelfAddressReplyType == "selfAddress"
NymErrorType == "error"
NymReceivedType == "received"

\* An inbound frame: json says whether the generic decode succeeds, type is
\* the value of the "type" attribute ("" when absent), body says whether the
\* decode into the concrete variant succeeds, address is the "address" field.
MkFrame(j, t, b, a) == [json |-> j, type |-> t, body |-> b, address |-> a]

NoFrame == MkFrame(FALSE, "", FALSE, <<>>)

Frames ==
    {NoFrame, MkFrame(TRUE, "", TRUE, <<>>), MkFrame(TRUE, "send", TRUE, <<>>)}
    \cup {MkFrame(TRUE, NymSelfAddressReplyType, TRUE, a) : a \in Addresses}
    \cup {MkFrame(TRUE, t, FALSE, <<>>) :
            t \in {NymSelfAddressReplyType, NymErrorType, NymReceivedType}}
    \cup {MkFrame(TRUE, t, TRUE, <<>>) : t \in {NymErrorType, NymReceivedType}}

VARIABLES
    mu,                        \* holder of the embedded sync.Mutex
    senderMutex,               \* holder of senderMutex
    clientID,                  \* string header: data pointer and length
    connection,                \* *websocket.Conn
    selfInstanceStoppedChan,
    socketListener,
    closedSocketListenerChan,
    selfAddressReceivedChan,
    conn,                      \* heap: connection -> "none" | "open" | "closed"
    addrChan,                  \* heap: identity-received channels
    stoppedChan,               \* heap: stopped-notification channels
    lstChan,                   \* heap: receive-loop-closed channels
    pc,                        \* position of every goroutine
    op,                        \* public method a thread is in / was last in
    err,                       \* error a thread's call has in flight / returned
    retChan,                   \* channel returned by the last Start
    retBool,                   \* value returned by the last IsRunning
    retStr,                    \* value returned by the last GetNymClientId
    frame,                     \* frame messageDispatcher is acting on
    chanRead,                  \* channel messageDispatcher loaded for its test
    idRead,                    \* words of clientID GetNymClientId has loaded
    panicked,                  \* "" or the runtime panic that ended the process
    startOK,                   \* connections whose Start returned a channel
    lastAddress                \* address of the last identity-reply stored

fields == <<clientID, connection, selfInstanceStoppedChan, socketListener,
            closedSocketListenerChan, selfAddressReceivedChan>>

heap == <<conn, addrChan, stoppedChan, lstChan>>

locks == <<mu, senderMutex>>

rets == <<retChan, retBool, retStr>>

ghost == <<startOK, lastAddress>>

locals == <<chanRead, idRead>>

vars == <<mu, senderMutex, clientID, connection, selfInstanceStoppedChan,
          socketListener, closedSocketListenerChan, selfAddressReceivedChan,
          conn, addrChan, stoppedChan, lstChan, pc, op, err, retChan, retBool,
          retStr, frame, chanRead, idRead, panicked, startOK, lastAddress>>

\* A Go string header.
MkString(a) == [ptr |-> a, len |-> Len(a)]

\* json.Unmarshal of the "address" field into NymSelfAddressReply.Address.
ReplyAddress(f) == MkString(f.address)

\* The bytes a string header denotes: len bytes starting at ptr (bytes beyond
\* the backing array are whatever follows it in memory, written 0).
StringOf(s) ==
    IF s.len <= Len(s.ptr)
    THEN SubSeq(s.ptr, 1, s.len)
    ELSE s.ptr \o [i \in 1..(s.len - Len(s.ptr)) |-> 0]

Goto(c, l) == pc' = [pc EXCEPT ![c] = l]

Running == panicked = ""

\* The next connection websocket.DefaultDialer.Dial would create.
NextConn == Cardinality({i \in Listeners : conn[i] # "none"}) + 1

Init ==
    /\ mu = NoCtx
    /\ senderMutex = NoCtx
    /\ clientID = MkString(<<>>)
    /\ connection = Nil
    /\ selfInstanceStoppedChan = Nil
    /\ socketListener = Nil
    /\ closedSocketListenerChan = Nil
    /\ selfAddressReceivedChan = Nil
    /\ conn = [i \in Listeners |-> "none"]
    /\ addrChan = [i \in Listeners |-> "none"]
    /\ stoppedChan = [i \in Listeners |-> "none"]
    /\ lstChan = [i \in Listeners |-> "none"]
    /\ pc = [c \in Ctx |-> IF c \in Threads THEN "idle" ELSE "LOff"]
    /\ op = [c \in Threads |-> ""]
    /\ err = [c \in Threads |-> ""]
    /\ retChan = [c \in Threads |-> Nil]
    /\ retBool = [c \in Threads |-> FALSE]
    /\ retStr = [c \in Threads |-> <<>>]
    /\ frame = [l \in Listeners |-> NoFrame]
    /\ chanRead = [l \in Listeners |-> Nil]
    /\ idRead = [t \in Threads |-> MkString(<<>>)]
    /\ panicked = ""
    /\ startOK = {}
    /\ lastAddress = <<>>

(***************************************************************************)
(* Calls made by the application.                                          *)
(***************************************************************************)
Call(t, o, l) ==
    /\ Running
    /\ pc[t] = "idle"
    /\ Goto(t, l)
    /\ op' = [op EXCEPT ![t] = o]
    /\ err' = [err EXCEPT ![t] = ""]
    /\ retChan' = [retChan EXCEPT ![t] = Nil]
    /\ retBool' = [retBool EXCEPT ![t] = FALSE]
    /\ retStr' = [retStr EXCEPT ![t] = <<>>]
    /\ UNCHANGED <<locks, fields, heap, frame, locals, panicked, ghost>>

CallStart(t) == Call(t, "Start", "StartLock")

CallStop(t) == Call(t, "Stop", "StopLock")

CallSend(t) == Call(t, "Send", "SendLock")

\* IsRunning: lock, read the handle, unlock.
IsRunning(t) ==
    /\ Running
    /\ pc[t] = "idle"
    /\ mu = NoCtx
    /\ op' = [op EXCEPT ![t] = "IsRunning"]
    /\ err' = [err EXCEPT ![t] = ""]
    /\ retChan' = [retChan EXCEPT ![t] = Nil]
    /\ retBool' = [retBool EXCEPT ![t] = (Nil # connection)]
    /\ retStr' = [retStr EXCEPT ![t] = <<>>]
    /\ UNCHANGED <<locks, fields, heap, pc, frame, locals, panicked, ghost>>

\* GetNymClientId is entered: n.Lock(), and the first of the two word loads of
\* "return n.clientID" (a string is two words and the loads may come in
\* either order; the dispatcher's stores are not held back by the lock).
GetNymClientIdLock(t) ==
    /\ Running
    /\ pc[t] = "idle"
    /\ mu = NoCtx
    /\ mu' = t
    /\ op' = [op EXCEPT ![t] = "GetNymClientId"]
    /\ err' = [err EXCEPT ![t] = ""]
    /\ retChan' = [retChan EXCEPT ![t] = Nil]
    /\ retBool' = [retBool EXCEPT ![t] = FALSE]
    /\ retStr' = [retStr EXCEPT ![t] = <<>>]
    /\ \/ /\ idRead' = [idRead EXCEPT ![t].ptr = clientID.ptr]
          /\ Goto(t, "GetLen")
       \/ /\ idRead' = [idRead EXCEPT ![t].len = clientID.len]
          /\ Goto(t, "GetPtr")
    /\ UNCHANGED <<senderMutex, fields, heap, frame, chanRead, panicked,
                   ghost>>

\* The string header GetNymClientId returns: the word loaded before and the
\* other one as it is now.
HeaderRead(t) ==
    IF pc[t] = "GetLen"
    THEN [ptr |-> idRead[t].ptr, len |-> clientID.len]
    ELSE [ptr |-> clientID.ptr, len |-> idRead[t].len]

\* GetNymClientId: the second word load, the deferred n.Unlock(), the return.
GetNymClientId(t) ==
    /\ Running
    /\ pc[t] \in {"GetLen", "GetPtr"}
    /\ retStr' = [retStr EXCEPT ![t] = StringOf(HeaderRead(t))]
    /\ idRead' = [idRead EXCEPT ![t] = MkString(<<>>)]
    /\ mu' = NoCtx
    /\ Goto(t, "idle")
    /\ UNCHANGED <<senderMutex, fields, heap, op, err, retChan, retBool, frame,
                   chanRead, panicked, ghost>>

(***************************************************************************)
(* selfDestruct (the caller holds the state lock)                          *)
(***************************************************************************)
\* Where a goroutine is once the method it is in has returned.
Returned(c) ==
    IF c \in Threads THEN "idle"
    ELSE IF lstChan[c] = "closed" THEN "LDone" ELSE "LEndS"

\* if nil != n.connection { n.connection.Close() ...
SdCloseConn(c) ==
    IF Nil # connection
    THEN /\ conn' = [conn EXCEPT ![connection] = "closed"]
         /\ Goto(c, "SdNilConn")
    ELSE /\ conn' = conn
         /\ Goto(c, "SdCloseChan")

\* selfDestruct is entered by c, which holds the state lock: the guard on
\* selfInstanceStoppedChan returns at once (and so does the caller, which
\* unlocks); otherwise the close signal is sent when a listener is attached.
SdEnter(c) ==
    IF Nil = selfInstanceStoppedChan
    THEN /\ mu' = NoCtx
         /\ Goto(c, Returned(c))
         /\ UNCHANGED <<conn>>
    ELSE IF Nil # socketListener
    THEN /\ mu' = c
         /\ Goto(c, "CsLock")
         /\ UNCHANGED <<conn>>
    ELSE /\ mu' = c
         /\ SdCloseConn(c)

\* case <-n.closedSocketListenerChan; n.socketListener = nil; Close().
SdWaitClosed(c) ==
    /\ Running
    /\ pc[c] = "SdWait"
    /\ lstChan[closedSocketListenerChan] = "closed"
    /\ socketListener' = Nil
    /\ SdCloseConn(c)
    /\ UNCHANGED <<locks, clientID, connection, selfInstanceStoppedChan,
                   closedSocketListenerChan, selfAddressReceivedChan, addrChan,
                   stoppedChan, lstChan, op, err, rets, frame, locals, panicked,
                   ghost>>

\* case <-time.After(deadline); n.socketListener = nil; Close().
SdWaitTimeout(c) ==
    /\ Running
    /\ pc[c] = "SdWait"
    /\ socketListener' = Nil
    /\ SdCloseConn(c)
    /\ UNCHANGED <<locks, clientID, connection, selfInstanceStoppedChan,
                   closedSocketListenerChan, selfAddressReceivedChan, addrChan,
                   stoppedChan, lstChan, op, err, rets, frame, locals, panicked,
                   ghost>>

\* SdNilConn leaving the handle as it is.
SdNilConn_Keep(c) ==
    /\ Running
    /\ pc[c] = "SdNilConn"
    /\ Goto(c, "SdCloseChan")
    /\ UNCHANGED <<locks, fields, heap, op, err, rets, frame, locals, panicked,
                   ghost>>

\* ... n.connection = nil }
SdNilConn(c) ==
    /\ Running
    /\ pc[c] = "SdNilConn"
    /\ connection' = Nil
    /\ Goto(c, "SdCloseChan")
    /\ UNCHANGED <<locks, clientID, selfInstanceStoppedChan, socketListener,
                   closedSocketListenerChan, selfAddressReceivedChan, heap, op,
                   err, rets, frame, locals, panicked, ghost>>

\* SdCloseChan leaving the closed channel in the field.
SdCloseChan_KeepField(c) ==
    /\ Running
    /\ pc[c] = "SdCloseChan"
    /\ IF Nil = selfInstanceStoppedChan
       THEN /\ UNCHANGED <<stoppedChan, panicked>>
            /\ mu' = NoCtx
            /\ Goto(c, Returned(c))
       ELSE IF stoppedChan[selfInstanceStoppedChan] = "closed"
       THEN /\ panicked' = "close of closed channel"
            /\ UNCHANGED <<stoppedChan, pc, mu>>
       ELSE /\ stoppedChan' =
                   [stoppedChan EXCEPT ![selfInstanceStoppedChan] = "closed"]
            /\ panicked' = panicked
            /\ mu' = NoCtx
            /\ Goto(c, Returned(c))
    /\ UNCHANGED <<senderMutex, clientID, connection, selfInstanceStoppedChan,
                   socketListener, closedSocketListenerChan,
                   selfAddressReceivedChan, conn, addrChan, lstChan, op, err,
                   rets, frame, locals, ghost>>

\* if nil != n.selfInstanceStoppedChan { close(...); ... = nil }, then the
\* caller's deferred n.Unlock() and its return.
SdCloseChan(c) ==
    /\ Running
    /\ pc[c] = "SdCloseChan"
    /\ IF Nil = selfInstanceStoppedChan
       THEN /\ UNCHANGED <<stoppedChan, selfInstanceStoppedChan, panicked>>
            /\ mu' = NoCtx
            /\ Goto(c, Returned(c))
       ELSE IF stoppedChan[selfInstanceStoppedChan] = "closed"
       THEN /\ panicked' = "close of closed channel"
            /\ UNCHANGED <<stoppedChan, selfInstanceStoppedChan, pc, mu>>
       ELSE /\ stoppedChan' =
                   [stoppedChan EXCEPT ![selfInstanceStoppedChan] = "closed"]
            /\ selfInstanceStoppedChan' = Nil
            /\ panicked' = panicked
            /\ mu' = NoCtx
            /\ Goto(c, Returned(c))
    /\ UNCHANGED <<senderMutex, clientID, connection, socketListener,
                   closedSocketListenerChan, selfAddressReceivedChan, conn,
                   addrChan, lstChan, op, err, rets, frame, locals, ghost>>

(***************************************************************************)
(* Start                                                                   *)
(***************************************************************************)
\* n.Lock(); if nil != n.connection { return nil, nil }
StartResume(t) ==
    /\ Running
    /\ pc[t] = "StartLock"
    /\ mu = NoCtx
    /\ Nil # connection
    /\ Goto(t, "idle")
    /\ UNCHANGED <<locks, fields, heap, op, err, rets, frame, locals, panicked,
                   ghost>>

\* StartLock without the test of n.connection.
StartLock_NoCheck(t) ==
    /\ Running
    /\ pc[t] = "StartLock"
    /\ mu = NoCtx
    /\ mu' = t
    /\ Goto(t, "StartDial")
    /\ UNCHANGED <<senderMutex, fields, heap, op, err, rets, frame, locals, panicked,
                   ghost>>

\* n.Lock() with no connection: Start goes on to dial.
StartLock(t) ==
    /\ Running
    /\ pc[t] = "StartLock"
    /\ mu = NoCtx
    /\ Nil = connection
    /\ mu' = t
    /\ Goto(t, "StartDial")
    /\ UNCHANGED <<senderMutex, fields, heap, op, err, rets, frame, locals, panicked,
                   ghost>>

\* n.connection, _, e = Dial(...) with e == nil; NewSocketListener(...) and
\* go n.socketListener.Listen().
StartDialOK(t) ==
    /\ Running
    /\ pc[t] = "StartDial"
    /\ NextConn <= MaxDials
    /\ connection' = NextConn
    /\ conn' = [conn EXCEPT ![NextConn] = "open"]
    /\ socketListener' = NextConn
    /\ closedSocketListenerChan' = NextConn
    /\ lstChan' = [lstChan EXCEPT ![NextConn] = "open"]
    /\ pc' = [pc EXCEPT ![t] = "StartMkChan", ![NextConn] = "LRead"]
    /\ UNCHANGED <<locks, clientID, selfInstanceStoppedChan,
                   selfAddressReceivedChan, addrChan, stoppedChan, op, err,
                   rets, frame, locals, panicked, ghost>>

\* StartDialFail returning no error.
StartDialFail_NoError(t) ==
    /\ Running
    /\ pc[t] = "StartDial"
    /\ connection' = Nil
    /\ mu' = NoCtx
    /\ Goto(t, "idle")
    /\ UNCHANGED <<senderMutex, clientID, selfInstanceStoppedChan,
                   socketListener, closedSocketListenerChan,
                   selfAddressReceivedChan, heap, op, err, rets, frame, locals,
                   panicked, ghost>>

\* n.connection, _, e = Dial(...) with e != nil: the handle returned is nil
\* and Start returns the error.
StartDialFail(t) ==
    /\ Running
    /\ pc[t] = "StartDial"
    /\ connection' = Nil
    /\ err' = [err EXCEPT ![t] = "ConnectionError"]
    /\ mu' = NoCtx
    /\ Goto(t, "idle")
    /\ UNCHANGED <<senderMutex, clientID, selfInstanceStoppedChan,
                   socketListener, closedSocketListenerChan,
                   selfAddressReceivedChan, heap, op, rets, frame, locals, panicked,
                   ghost>>

\* The dial succeeds and NewSocketListener returns an error (the listener and
\* the channel it returns with an error are taken to be nil): no receive loop
\* is started; selfDestruct, then the error is returned.  selfDestruct starts
\* from n.selfInstanceStoppedChan: nil, it returns at once; otherwise, with no
\* listener, it goes on to close the transport.
StartListenerFail(t) ==
    /\ Running
    /\ pc[t] = "StartDial"
    /\ NextConn <= MaxDials
    /\ connection' = NextConn
    /\ socketListener' = Nil
    /\ closedSocketListenerChan' = Nil
    /\ err' = [err EXCEPT ![t] = "ListenerError"]
    /\ IF Nil = selfInstanceStoppedChan
       THEN /\ conn' = [conn EXCEPT ![NextConn] = "open"]
            /\ mu' = NoCtx
            /\ Goto(t, "idle")
       ELSE /\ conn' = [conn EXCEPT ![NextConn] = "closed"]
            /\ mu' = t
            /\ Goto(t, "SdNilConn")
    /\ UNCHANGED <<senderMutex, clientID, selfInstanceStoppedChan,
                   selfAddressReceivedChan, addrChan, stoppedChan, lstChan, op,
                   rets, frame, locals, panicked, ghost>>

\* n.selfAddressReceivedChan = make(chan interface{}); n.Send(...) is entered.
StartMkChan(t) ==
    /\ Running
    /\ pc[t] = "StartMkChan"
    /\ selfAddressReceivedChan' = connection
    /\ addrChan' = [addrChan EXCEPT ![connection] = "open"]
    /\ Goto(t, "SendLock")
    /\ UNCHANGED <<locks, clientID, connection, selfInstanceStoppedChan,
                   socketListener, closedSocketListenerChan, conn, stoppedChan,
                   lstChan, op, err, rets, frame, locals, panicked, ghost>>

\* Send returned an error: selfDestruct, then the error is returned.
StartSendFailed(t) ==
    /\ Running
    /\ pc[t] = "StartSendFailed"
    /\ err' = [err EXCEPT ![t] = "SendError"]
    /\ SdEnter(t)
    /\ UNCHANGED <<senderMutex, fields, addrChan, stoppedChan, lstChan, op,
                   rets, frame, locals, panicked, ghost>>

\* case <-n.selfAddressReceivedChan: the signal is dropped, the
\* stopped-notification channel is made and returned.
StartRecv(t) ==
    /\ Running
    /\ pc[t] = "StartWait"
    /\ addrChan[selfAddressReceivedChan] = "closed"
    /\ selfAddressReceivedChan' = Nil
    /\ selfInstanceStoppedChan' = connection
    /\ stoppedChan' = [stoppedChan EXCEPT ![connection] = "open"]
    /\ retChan' = [retChan EXCEPT ![t] = connection]
    /\ startOK' = startOK \cup {connection}
    /\ mu' = NoCtx
    /\ Goto(t, "idle")
    /\ UNCHANGED <<senderMutex, clientID, connection, socketListener,
                   closedSocketListenerChan, conn, addrChan, lstChan, op, err,
                   retBool, retStr, frame, locals, panicked, lastAddress>>

\* case <-timeout: selfDestruct, then the error is returned.
StartTimeout(t) ==
    /\ Running
    /\ pc[t] = "StartWait"
    /\ err' = [err EXCEPT ![t] = "HandshakeTimeout"]
    /\ SdEnter(t)
    /\ UNCHANGED <<senderMutex, fields, addrChan, stoppedChan, lstChan, op,
                   rets, frame, locals, panicked, ghost>>

(***************************************************************************)
(* Stop (called by the application, and by a receive loop as its on-close  *)
(* callback)                                                               *)
(***************************************************************************)
\* StopIdle running the teardown although no connection exists.
StopIdle_Teardown(c) ==
    /\ Running
    /\ pc[c] = "StopLock"
    /\ mu = NoCtx
    /\ Nil = connection
    /\ mu' = c
    /\ Goto(c, "CsLock")
    /\ UNCHANGED <<senderMutex, fields, heap, op, err, rets, frame, locals, panicked,
                   ghost>>

\* n.Lock(); if nil == n.connection { return }
StopIdle(c) ==
    /\ Running
    /\ pc[c] = "StopLock"
    /\ mu = NoCtx
    /\ Nil = connection
    /\ Goto(c, Returned(c))
    /\ UNCHANGED <<locks, fields, heap, op, err, rets, frame, locals, panicked,
                   ghost>>

\* n.Lock(); a connection exists: n.selfDestruct()
StopLock(c) ==
    /\ Running
    /\ pc[c] = "StopLock"
    /\ mu = NoCtx
    /\ Nil # connection
    /\ SdEnter(c)
    /\ UNCHANGED <<senderMutex, fields, addrChan, stoppedChan, lstChan, op,
                   err, rets, frame, locals, panicked, ghost>>

(***************************************************************************)
(* sendCloseSignal (called by selfDestruct; its error is discarded)        *)
(***************************************************************************)
\* n.senderMutex.Lock(); the nil test; WriteMessage(CloseMessage) is entered.
CsLock(c) ==
    /\ Running
    /\ pc[c] = "CsLock"
    /\ senderMutex = NoCtx
    /\ IF Nil = connection
       THEN /\ senderMutex' = NoCtx
            /\ Goto(c, "SdWait")
       ELSE /\ senderMutex' = c
            /\ Goto(c, "CsWriting")
    /\ UNCHANGED <<mu, fields, heap, op, err, rets, frame, locals, panicked, ghost>>

\* CsWritten giving the teardown up when the write may have failed.
CsWritten_Abort(c) ==
    /\ Running
    /\ pc[c] = "CsWriting"
    /\ senderMutex' = NoCtx
    /\ mu' = NoCtx
    /\ Goto(c, Returned(c))
    /\ UNCHANGED <<fields, heap, op, err, rets, frame, locals, panicked, ghost>>

\* WriteMessage returns (selfDestruct discards the error, if any); the
\* deferred n.senderMutex.Unlock(); selfDestruct goes on to its select.
CsWritten(c) ==
    /\ Running
    /\ pc[c] = "CsWriting"
    /\ senderMutex' = NoCtx
    /\ Goto(c, "SdWait")
    /\ UNCHANGED <<mu, fields, heap, op, err, rets, frame, locals, panicked, ghost>>

(***************************************************************************)
(* Send (called by the application, by Start, and by the message handler   *)
(* through the reply function)                                             *)
(***************************************************************************)
\* Start is the only caller of Send that holds the state lock.
SendFromStart(c) == mu = c

\* Where Send returns to with error e: the dispatcher, the application, or
\* Start (which tears down on an error).
SendReturn(c, e) ==
    /\ err' = IF c \in Threads THEN [err EXCEPT ![c] = e] ELSE err
    /\ senderMutex' = NoCtx
    /\ Goto(c, IF c \in Listeners THEN "LRead"
               ELSE IF ~SendFromStart(c) THEN "idle"
               ELSE IF e = "" THEN "StartWait" ELSE "StartSendFailed")
    /\ frame' = IF c \in Listeners THEN [frame EXCEPT ![c] = NoFrame] ELSE frame
    /\ UNCHANGED locals

\* SendLock without the nil test.
SendLock_NoCheck(c) ==
    /\ Running
    /\ pc[c] = "SendLock"
    /\ senderMutex = NoCtx
    /\ senderMutex' = c
    /\ Goto(c, "SendWrite")
    /\ UNCHANGED <<mu, fields, heap, op, err, rets, frame, locals, panicked, ghost>>

\* SendLock without taking senderMutex.
SendLock_NoMutex(c) ==
    /\ Running
    /\ pc[c] = "SendLock"
    /\ IF Nil = connection
       THEN /\ err' = IF c \in Threads THEN [err EXCEPT ![c] = "NotStarted"]
                      ELSE err
            /\ Goto(c, IF c \in Listeners THEN "LRead"
                       ELSE IF mu # c THEN "idle" ELSE "StartSendFailed")
            /\ frame' = IF c \in Listeners THEN [frame EXCEPT ![c] = NoFrame]
                        ELSE frame
            /\ UNCHANGED locals
       ELSE /\ Goto(c, "SendWrite")
            /\ UNCHANGED <<err, frame, locals>>
    /\ UNCHANGED <<locks, fields, heap, op, rets, panicked, ghost>>

\* n.senderMutex.Lock(); the nil test; json.Marshal(msg).
SendLock(c) ==
    /\ Running
    /\ pc[c] = "SendLock"
    /\ senderMutex = NoCtx
    /\ IF Nil = connection
       THEN SendReturn(c, "NotStarted")
       ELSE \E marshalled \in IF SendFromStart(c) THEN {TRUE} ELSE BOOLEAN :
              IF marshalled
              THEN /\ senderMutex' = c
                   /\ Goto(c, "SendWrite")
                   /\ UNCHANGED <<err, frame, locals>>
              ELSE SendReturn(c, "EncodingError")
    /\ UNCHANGED <<mu, fields, heap, op, rets, panicked, ghost>>

\* n.connection.WriteMessage(TextMessage, msgBytes) is entered: the handle is
\* read again; a nil handle is dereferenced, a closed one refuses the write.
SendWrite(c) ==
    /\ Running
    /\ pc[c] = "SendWrite"
    /\ IF Nil = connection
       THEN /\ panicked' = "nil pointer dereference"
            /\ UNCHANGED <<pc, err, senderMutex, frame, locals>>
       ELSE IF conn[connection] = "closed"
       THEN /\ SendReturn(c, "WriteError")
            /\ panicked' = panicked
       ELSE /\ Goto(c, "SendWriting")
            /\ UNCHANGED <<err, panicked, senderMutex, frame, locals>>
    /\ UNCHANGED <<mu, fields, heap, op, rets, ghost>>

\* SendWritten calling Stop, from inside Send, when the write failed.
SendWritten_Stop(c) ==
    /\ Running
    /\ pc[c] = "SendWriting"
    /\ \/ SendReturn(c, "")
       \/ /\ Goto(c, "StopLock")
          /\ UNCHANGED <<err, senderMutex, frame, locals>>
    /\ UNCHANGED <<mu, fields, heap, op, rets, panicked, ghost>>

\* WriteMessage returns, with or without an error.
SendWritten(c) ==
    /\ Running
    /\ pc[c] = "SendWriting"
    /\ \E e \in {"", "WriteError"} : SendReturn(c, e)
    /\ UNCHANGED <<mu, fields, heap, op, rets, panicked, ghost>>

(***************************************************************************)
(* The receive loop (SocketListener.Listen)                                *)
(***************************************************************************)
\* ReadMessage yields a frame and the loop hands it to messageDispatcher; the
\* frame is the dispatcher's input, drawn where the dispatcher decodes it.
ListenRead(l) ==
    /\ Running
    /\ pc[l] = "LRead"
    /\ conn[l] = "open"
    /\ Goto(l, "Dispatch")
    /\ UNCHANGED <<locks, fields, heap, op, err, rets, frame, locals, panicked,
                   ghost>>

\* ReadMessage fails (the peer closed, the transport broke or was closed) and
\* the loop ends: it invokes the on-close callback (n.Stop) and closes the
\* receive-loop-closed signal.  Here the callback comes first.
ListenEndStop(l) ==
    /\ Running
    /\ pc[l] = "LRead"
    /\ Goto(l, "StopLock")
    /\ UNCHANGED <<locks, fields, heap, op, err, rets, frame, locals, panicked,
                   ghost>>

\* ReadMessage fails and the loop ends; here the signal is closed first.
ListenEndClosed(l) ==
    /\ Running
    /\ pc[l] = "LRead"
    /\ lstChan' = [lstChan EXCEPT ![l] = "closed"]
    /\ Goto(l, "LEndC")
    /\ UNCHANGED <<locks, fields, conn, addrChan, stoppedChan, op, err, rets,
                   frame, locals, panicked, ghost>>

\* The on-close callback (n.Stop) is invoked after the signal was closed.
ListenStopParent(l) ==
    /\ Running
    /\ pc[l] = "LEndC"
    /\ Goto(l, "StopLock")
    /\ UNCHANGED <<locks, fields, heap, op, err, rets, frame, locals, panicked,
                   ghost>>

\* The signal is closed after the on-close callback returned.
ListenClosed(l) ==
    /\ Running
    /\ pc[l] = "LEndS"
    /\ lstChan' = [lstChan EXCEPT ![l] = "closed"]
    /\ Goto(l, "LDone")
    /\ UNCHANGED <<locks, fields, conn, addrChan, stoppedChan, op, err, rets,
                   frame, locals, panicked, ghost>>

(***************************************************************************)
(* messageDispatcher (runs on the receive loop's goroutine)                *)
(***************************************************************************)
\* What the two-stage decode of a frame leads to.
Classify(f) ==
    IF ~f.json THEN "unmarshalError"
    ELSE IF f.type = "" THEN "noType"
    ELSE IF f.type = NymSelfAddressReplyType
         THEN IF f.body THEN "selfAddress" ELSE "decodeError"
    ELSE IF f.type = NymErrorType
         THEN IF f.body THEN "error" ELSE "decodeError"
    ELSE IF f.type = NymReceivedType
         THEN IF f.body THEN "received" ELSE "decodeError"
    ELSE "unparsedType"

\* DispatchDrop forgetting the identity when it drops a frame.
DispatchDrop_Reset(l) ==
    /\ Running
    /\ pc[l] = "Dispatch"
    /\ \E f \in Frames : Classify(f) \notin {"selfAddress", "received"}
    /\ clientID' = MkString(<<>>)
    /\ Goto(l, "LRead")
    /\ UNCHANGED <<locks, connection, selfInstanceStoppedChan, socketListener,
                   closedSocketListenerChan, selfAddressReceivedChan, heap, op,
                   err, rets, frame, locals, panicked, ghost>>

\* Frames that are logged and dropped.
DispatchDrop(l) ==
    /\ Running
    /\ pc[l] = "Dispatch"
    /\ \E f \in Frames : Classify(f) \notin {"selfAddress", "received"}
    /\ Goto(l, "LRead")
    /\ UNCHANGED <<locks, fields, heap, op, err, rets, frame, locals, panicked,
                   ghost>>

\* n.clientID = reply.Address, first word: the store is not synchronised with
\* the readers of clientID and a string is two words, so either word may be
\* written first.
DispatchStore1(l) ==
    /\ Running
    /\ pc[l] = "Dispatch"
    /\ \E f \in Frames :
        /\ Classify(f) = "selfAddress"
        /\ frame' = [frame EXCEPT ![l] = f]
        /\ \/ /\ clientID' = [clientID EXCEPT !.ptr = ReplyAddress(f).ptr]
              /\ Goto(l, "DStoreLen")
           \/ /\ clientID' = [clientID EXCEPT !.len = ReplyAddress(f).len]
              /\ Goto(l, "DStorePtr")
    /\ UNCHANGED <<locks, connection, selfInstanceStoppedChan, socketListener,
                   closedSocketListenerChan, selfAddressReceivedChan, heap, op,
                   err, rets, locals, panicked, ghost>>

\* Positions of a dispatcher between the two word stores.
StorePcs == {"DStoreLen", "DStorePtr"}

\* n.clientID = reply.Address, the other word (and that word only).
DispatchStore2(l) ==
    /\ Running
    /\ pc[l] \in StorePcs
    /\ clientID' = IF pc[l] = "DStoreLen"
                   THEN [clientID EXCEPT !.len = ReplyAddress(frame[l]).len]
                   ELSE [clientID EXCEPT !.ptr = ReplyAddress(frame[l]).ptr]
    /\ lastAddress' = frame[l].address
    /\ Goto(l, "DTest")
    /\ frame' = [frame EXCEPT ![l] = NoFrame]
    /\ UNCHANGED <<locks, connection, selfInstanceStoppedChan, socketListener,
                   closedSocketListenerChan, selfAddressReceivedChan, heap, op,
                   err, rets, locals, panicked, startOK>>

\* "if nil != n.selfAddressReceivedChan": the field is loaded, without the
\* state lock and in a step of its own after the store (the logger call of
\* line 297 lies between them); nil, messageDispatcher returns.
DispatchTest(l) ==
    /\ Running
    /\ pc[l] = "DTest"
    /\ chanRead' = [chanRead EXCEPT ![l] = selfAddressReceivedChan]
    /\ Goto(l, IF Nil # selfAddressReceivedChan THEN "DClose" ELSE "LRead")
    /\ UNCHANGED <<locks, fields, heap, op, err, rets, frame, idRead, panicked,
                   ghost>>

\* close(n.selfAddressReceivedChan): the field is read without the state lock
\* at 298 and at 299, in a race with Start's writes, so the channel closed is
\* the one the test loaded or the one the field holds now.
DispatchClose(l) ==
    /\ Running
    /\ pc[l] = "DClose"
    /\ \E ch \in {chanRead[l], selfAddressReceivedChan} :
          IF Nil = ch
          THEN /\ panicked' = "close of nil channel"
               /\ UNCHANGED <<addrChan, pc, chanRead>>
          ELSE IF addrChan[ch] = "closed"
          THEN /\ panicked' = "close of closed channel"
               /\ UNCHANGED <<addrChan, pc, chanRead>>
          ELSE /\ addrChan' = [addrChan EXCEPT ![ch] = "closed"]
               /\ chanRead' = [chanRead EXCEPT ![l] = Nil]
               /\ Goto(l, "LRead")
               /\ panicked' = panicked
    /\ UNCHANGED <<locks, fields, conn, stoppedChan, lstChan, op, err, rets,
                   frame, idRead, ghost>>

\* DispatchHandler handing every typed frame to the handler.
DispatchHandler_AnyType(l) ==
    /\ Running
    /\ pc[l] = "Dispatch"
    /\ \E f \in Frames :
        /\ Classify(f) \in {"received", "error"}
        /\ frame' = [frame EXCEPT ![l] = f]
    /\ Goto(l, "Handler")
    /\ UNCHANGED <<locks, fields, heap, op, err, rets, locals, panicked,
                   ghost>>

\* n.messageHandler(msg, n.Send) is invoked.
DispatchHandler(l) ==
    /\ Running
    /\ pc[l] = "Dispatch"
    /\ \E f \in Frames :
        /\ Classify(f) = "received"
        /\ frame' = [frame EXCEPT ![l] = f]
    /\ Goto(l, "Handler")
    /\ UNCHANGED <<locks, fields, heap, op, err, rets, locals, panicked,
                   ghost>>

\* The handler replies through the bound send function.
HandlerReply(l) ==
    /\ Running
    /\ pc[l] = "Handler"
    /\ Goto(l, "SendLock")
    /\ UNCHANGED <<locks, fields, heap, op, err, rets, frame, locals, panicked,
                   ghost>>

\* The handler returns without replying.
HandlerReturn(l) ==
    /\ Running
    /\ pc[l] = "Handler"
    /\ Goto(l, "LRead")
    /\ frame' = [frame EXCEPT ![l] = NoFrame]
    /\ UNCHANGED <<locks, fields, heap, op, err, rets, locals, panicked,
                   ghost>>

(***************************************************************************)
(* The system                                                              *)
(***************************************************************************)
AppStep(t) ==
    \/ CallStart(t) \/ CallStop(t) \/ CallSend(t)
    \/ IsRunning(t) \/ GetNymClientIdLock(t) \/ GetNymClientId(t)
    \/ StartResume(t) \/ StartLock(t) \/ StartDialOK(t) \/ StartDialFail(t)
    \/ StartListenerFail(t)
    \/ StartMkChan(t) \/ StartSendFailed(t) \/ StartRecv(t) \/ StartTimeout(t)

SharedStep(c) ==
    \/ StopIdle(c) \/ StopLock(c)
    \/ SdWaitClosed(c) \/ SdWaitTimeout(c) \/ SdNilConn(c) \/ SdCloseChan(c)
    \/ CsLock(c) \/ CsWritten(c)
    \/ SendLock(c) \/ SendWrite(c) \/ SendWritten(c)

ListenerStep(l) ==
    \/ ListenRead(l) \/ ListenEndStop(l) \/ ListenEndClosed(l)
    \/ ListenStopParent(l) \/ ListenClosed(l)
    \/ DispatchDrop(l) \/ DispatchStore1(l) \/ DispatchStore2(l)
    \/ DispatchTest(l) \/ DispatchClose(l) \/ DispatchHandler(l)
    \/ HandlerReply(l) \/ HandlerReturn(l)

Next ==
    \/ \E t \in Threads : AppStep(t)
    \/ \E c \in Ctx : SharedStep(c)
    \/ \E l \in Listeners : ListenerStep(l)

Spec == Init /\ [][Next]_vars

\* Steps in which a goroutine takes a lock (sync.Mutex hands a lock over to a
\* waiter that keeps asking for it).
Acquire(c) ==
    \/ (c \in Threads /\ (StartResume(c) \/ StartLock(c)))
    \/ StopIdle(c) \/ StopLock(c) \/ CsLock(c) \/ SendLock(c)

\* Steps of Start, Stop, selfDestruct, Send and sendCloseSignal that wait for
\* nothing but the scheduler, a transport call returning, or a timer.
Progress(c) ==
    \/ (c \in Threads /\ (\/ StartDialOK(c) \/ StartDialFail(c)
                           \/ StartListenerFail(c)
                           \/ StartMkChan(c) \/ StartSendFailed(c)
                           \/ StartRecv(c) \/ StartTimeout(c)
                           \/ GetNymClientId(c)))
    \/ SdWaitClosed(c) \/ SdWaitTimeout(c) \/ SdNilConn(c) \/ SdCloseChan(c)
    \/ CsWritten(c) \/ SendWrite(c) \/ SendWritten(c)

\* Timers fire, transport calls return, goroutines are scheduled and locks
\* are handed over; the peer, the application and the message handler owe
\* nothing.
FairSpec ==
    /\ Spec
    /\ \A c \in Ctx : WF_vars(Progress(c)) /\ SF_vars(Acquire(c))

(***************************************************************************)
(* Properties                                                              *)
(***************************************************************************)
\* The goroutine c returns from Stop in this step.
StopReturns(c) ==
    /\ pc[c] \in {"StopLock", "SdCloseChan"}
    /\ pc'[c] \in {"idle", "LEndS", "LDone"}
    /\ c \in Threads => op[c] = "Stop"

\* Nothing of a session is left: no handle, no receive loop, no open
\* transport, no open stopped-notification channel.
TornDown ==
    /\ connection = Nil
    /\ socketListener = Nil
    /\ selfInstanceStoppedChan = Nil
    /\ \A i \in Listeners : conn[i] # "open" /\ stoppedChan[i] # "open"

\* Transports that were dialed and not closed locally.
OpenTransports == {i \in Listeners : conn[i] = "open"}

\* Goroutines inside a transport write.
Writers == {c \in Ctx : pc[c] \in {"SendWriting", "CsWriting"}}

\* C1: a Start that returned the handshake-timeout error has left the manager
\* with IsRunning() false and the transport, receive loop and signals released.
C1_TimeoutReleases ==
    \A t \in Threads :
        (pc[t] = "idle" /\ op[t] = "Start" /\ err[t] = "HandshakeTimeout")
            => (TornDown /\ selfAddressReceivedChan = Nil)

\* C2: when a Stop that found a non-nil transport handle returns, the
\* transport is closed, the handle and the receive-loop reference are nil and
\* the stopped-notification channel is closed.
C2_StopTearsDown ==
    [][\A c \in Ctx :
         (StopReturns(c) /\ ~(pc[c] = "StopLock" /\ connection = Nil))
             => TornDown']_vars

\* C3: no close is ever attempted on an already-closed or nil signal.
C3_ClosedAtMostOnce ==
    panicked \notin {"close of closed channel", "close of nil channel"}

\* C4: a Start call that finds the manager running returns no error and no
\* channel and changes nothing, and at most one transport is open at any time.
C4_StartIdempotent ==
    [][/\ \A t \in Threads :
            (pc[t] = "StartLock" /\ connection # Nil /\ pc'[t] # pc[t])
                => /\ pc'[t] = "idle"
                   /\ err'[t] = ""
                   /\ retChan'[t] = Nil
                   /\ UNCHANGED <<fields, heap, locks>>
       /\ Cardinality(OpenTransports') <= 1]_vars

\* C4 witness: a Start returned (nil, nil) on a running manager.
C4_Witness ==
    \E t \in Threads :
        /\ pc[t] = "idle" /\ op[t] = "Start"
        /\ err[t] = "" /\ retChan[t] = Nil
        /\ connection # Nil
        /\ Cardinality(OpenTransports) = 1

\* C5: a Stop call that finds no transport open returns with every manager
\* field, every transport, every channel and both locks as they were.
C5_StopIdempotent ==
    [][\A c \in Ctx :
         (pc[c] = "StopLock" /\ connection = Nil /\ pc'[c] # pc[c])
             => /\ pc'[c] \in {"idle", "LEndS", "LDone"}
                /\ UNCHANGED <<fields, heap, locks>>]_vars

\* C5 witness: the application's Stop and the receive loop's Stop callback
\* have both returned and the only session there ever was is torn down: the
\* later of the two found no transport open.
C5_Witness ==
    \E t \in Threads :
        /\ pc[t] = "idle" /\ op[t] = "Stop"
        /\ connection = Nil
        /\ Cardinality({i \in Listeners : conn[i] # "none"}) = 1
        /\ \E l \in Listeners : pc[l] = "LDone" /\ stoppedChan[l] = "closed"

\* Positions of a receive loop inside its Stop callback.
StopPcs == {"StopLock", "CsLock", "CsWriting", "SdWait", "SdNilConn",
            "SdCloseChan"}

\* C6: every call to Start and every call to Stop (by the application or by a
\* receive loop) eventually returns.
C6_CallsReturn ==
    /\ \A t \in Threads :
          (pc[t] # "idle" /\ op[t] \in {"Start", "Stop"}) ~> (pc[t] = "idle")
    /\ \A l \in Listeners :
          (pc[l] \in StopPcs) ~> (pc[l] \in {"LEndS", "LDone"})

\* Unless the process panics, every call to Start and to Stop returns.
CallsReturnOrPanic ==
    /\ \A t \in Threads :
          (pc[t] # "idle" /\ op[t] \in {"Start", "Stop"})
              ~> (pc[t] = "idle" \/ ~Running)
    /\ \A l \in Listeners :
          (pc[l] \in StopPcs) ~> (pc[l] \in {"LEndS", "LDone"} \/ ~Running)

\* C7: every handler invocation is preceded by the successful return of the
\* Start that opened the transport the frame came from.
C7_HandlerAfterStart ==
    \A l \in Listeners : pc[l] = "Handler" => l \in startOK

\* C7 amended: the handler is invoked only for application-data frames read
\* by the receive loop of a transport that a Start call has dialed (Start
\* need not have returned).
C7_HandlerAfterDial ==
    \A l \in Listeners :
        pc[l] = "Handler"
            => /\ conn[l] # "none"
               /\ frame[l].type = NymReceivedType
               /\ frame[l].json /\ frame[l].body

\* C7 witness: the handler is running while the Start that dialed the
\* transport is still waiting for the identity-reply.
C7_Witness ==
    \E l \in Listeners, t \in Threads :
        /\ pc[l] = "Handler"
        /\ l \notin startOK
        /\ pc[t] = "StartWait"
        /\ connection = l

\* C8: GetNymClientId returns the address carried in the most recently
\* received identity-reply (that of a reply being stored at that moment
\* counts as well), and the empty string before any reply was received.
C8_IdentityIsLastReply ==
    [][\A t \in Threads :
         (GetNymClientId(t)
            /\ (startOK # {}
                  \/ (lastAddress = <<>>
                        /\ \A l \in Listeners : pc[l] \notin StorePcs)))
             => \/ retStr'[t] = lastAddress
                \/ \E l \in Listeners :
                       pc[l] \in StorePcs /\ retStr'[t] = frame[l].address]_vars

\* C9: a Send that finds no transport open returns the "not started" error
\* without entering a write and with every manager field, transport and
\* channel unchanged.
C9_SendNotStarted ==
    [][\A c \in Ctx :
         (pc[c] = "SendLock" /\ connection = Nil /\ pc'[c] # pc[c])
             => /\ pc'[c] \in {"idle", "LRead", "StartSendFailed"}
                /\ c \in Threads => err'[c] = "NotStarted"
                /\ UNCHANGED <<fields, heap, locks>>]_vars

\* C9 witness: Send returned "not started" after a completed Stop.
C9_Witness ==
    \E t \in Threads :
        /\ pc[t] = "idle" /\ op[t] = "Send" /\ err[t] = "NotStarted"
        /\ connection = Nil
        /\ \E i \in Listeners : conn[i] = "closed"

\* C10: at most one goroutine is inside a transport write.
C10_WritesSerialized == Cardinality(Writers) <= 1

\* C10 witness: one goroutine is inside a write while another one is waiting
\* to send.
C10_Witness ==
    \E c, d \in Ctx :
        /\ c # d
        /\ pc[c] \in {"SendWriting", "CsWriting"}
        /\ pc[d] \in {"SendLock", "CsLock"}

\* C11: a successful Start returns a channel it has just made (open, never
\* handed out before) and leaves it in the field; the channel of a session is
\* open while the handle is that session's transport; it is closed by the
\* teardown of that session only (after the transport was closed and the
\* handle set to nil) and is closed once that teardown is over; a closed
\* channel stays closed and is never in the field, so that no teardown closes
\* it again.
C11_StoppedChanLifecycle ==
    [][/\ \A t \in Threads :
            (pc[t] = "StartWait" /\ pc'[t] = "idle" /\ err'[t] = "")
                => /\ retChan'[t] # Nil
                   /\ stoppedChan[retChan'[t]] = "none"
                   /\ stoppedChan'[retChan'[t]] = "open"
                   /\ selfInstanceStoppedChan' = retChan'[t]
                   /\ connection' = retChan'[t]
       /\ \A i \in startOK' :
            /\ connection' = i => stoppedChan'[i] = "open"
            /\ stoppedChan[i] = "closed" => stoppedChan'[i] = "closed"
            /\ (stoppedChan[i] = "open" /\ stoppedChan'[i] = "closed")
                  => /\ connection = Nil /\ conn[i] = "closed"
                     /\ \E c \in Ctx : pc[c] = "SdCloseChan" /\ mu = c
            /\ (mu' = NoCtx /\ conn'[i] = "closed")
                  => stoppedChan'[i] = "closed"
       /\ selfInstanceStoppedChan' # Nil
            => stoppedChan'[selfInstanceStoppedChan'] = "open"]_vars

\* C11 witness: the channel of an earlier session is closed and a later
\* successful Start has returned another one, which is open.
C11_Witness ==
    \E i, j \in startOK, t \in Threads :
        /\ i # j
        /\ stoppedChan[i] = "closed"
        /\ stoppedChan[j] = "open"
        /\ connection = j
        /\ pc[t] = "idle" /\ op[t] = "Start" /\ retChan[t] = j

\* C12: when the Stop callback invoked by the receive loop of a transport
\* returns, the teardown has run: that transport is closed, the handle no
\* longer refers to it and the stopped-notification channel of its session,
\* if Start returned one, is closed.
C12_LoopClosureTearsDown ==
    [][\A l \in Listeners :
         StopReturns(l)
             => /\ conn'[l] = "closed"
                /\ connection' # l
                /\ stoppedChan'[l] # "open"]_vars

\* The frame classes C13 is about.
NotApplicationData == {"error", "unmarshalError", "noType", "unparsedType"}

\* C13: the dispatcher leaves a frame it was handed in one of three ways: it
\* invokes the handler, and the frame is application data; it starts storing
\* the identity, and the frame is an identity-reply; or it goes back to
\* reading with every manager field, transport, channel and lock unchanged.
\* The frames C13 names are in neither of the first two classes.
C13_OtherFramesDropped ==
    [][\A l \in Listeners :
         (pc[l] = "Dispatch" /\ pc'[l] # "Dispatch")
             => \/ /\ pc'[l] = "Handler"
                   /\ Classify(frame'[l]) \notin NotApplicationData
                \/ /\ pc'[l] \in StorePcs
                   /\ Classify(frame'[l]) \notin NotApplicationData
                \/ /\ pc'[l] = "LRead"
                   /\ UNCHANGED <<fields, heap, locks>>]_vars

\* C13 witness: the dispatcher of a running session, whose Start succeeded,
\* has been handed a frame while the identity is set and no call is under way:
\* dropping the frame here must leave all of it as it is.
C13_Witness ==
    \E l \in Listeners, t \in Threads :
        /\ pc[l] = "Dispatch"
        /\ l \in startOK /\ connection = l /\ conn[l] = "open"
        /\ selfInstanceStoppedChan = l /\ socketListener = l
        /\ clientID # MkString(<<>>)
        /\ pc[t] = "idle" /\ op[t] = "IsRunning" /\ retBool[t]

\* C14: a Start whose dial fails (it returns from the dial with no transport
\* opened) returns the connection error and no channel
\* and leaves the manager idle: the handle, the receive-loop reference and
\* both signals are nil, no receive loop was started, no transport or channel
\* was made and the state lock is free (IsRunning() reports whether the
\* handle is non-nil).
C14_DialFailureStaysIdle ==
    [][\A t \in Threads :
         (pc[t] = "StartDial" /\ pc'[t] = "idle" /\ conn' = conn)
             => /\ err'[t] = "ConnectionError"
                /\ retChan'[t] = Nil
                /\ connection' = Nil
                /\ socketListener' = Nil
                /\ selfAddressReceivedChan' = Nil
                /\ selfInstanceStoppedChan' = Nil
                /\ mu' = NoCtx
                /\ UNCHANGED <<addrChan, stoppedChan, lstChan>>
                /\ \A l \in Listeners : pc'[l] = pc[l]]_vars

\* C14 witness: Start has returned the connection error, after an earlier
\* session was opened and torn down.
C14_Witness ==
    \E t \in Threads :
        /\ pc[t] = "idle" /\ op[t] = "Start" /\ err[t] = "ConnectionError"
        /\ retChan[t] = Nil
        /\ connection = Nil
        /\ \E i \in startOK : conn[i] = "closed"

\* C15: whenever Send enters its write, the handle is non-nil and refers to a
\* transport that is open.
C15_SendUsesOpenHandle ==
    [][\A c \in Ctx :
         SendWrite(c) => (connection # Nil /\ conn[connection] = "open")]_vars

\* C16: a step that writes the handle, the identity or one of the signal
\* fields is a step of the goroutine that holds the state lock.
C16_WritesUnderStateLock ==
    [][<<connection, clientID, selfInstanceStoppedChan,
         selfAddressReceivedChan>>' #
       <<connection, clientID, selfInstanceStoppedChan,
         selfAddressReceivedChan>>
          => (mu # NoCtx /\ pc'[mu] # pc[mu])]_vars

\* C17: the teardown goes through its steps in one order.  The wait for the
\* receive loop is entered only from the write of the close frame, and is
\* entered whatever that write did; a transport is closed only by the
\* goroutine that leaves this wait (the signal fired or the deadline passed),
\* which drops the receive-loop reference in the same step; the handle is set
\* to nil next; the stopped-notification channel is closed only after that,
\* with the transport closed and the handle and the reference nil.
C17_TeardownOrder ==
    [][/\ \A c \in Ctx :
            /\ (pc'[c] = "SdWait" /\ pc[c] # "SdWait") => pc[c] = "CsWriting"
            /\ (pc[c] = "CsWriting" /\ pc'[c] # "CsWriting")
                  => pc'[c] = "SdWait"
            /\ (pc'[c] = "SdNilConn" /\ pc[c] # "SdNilConn")
                  => /\ pc[c] = "SdWait"
                     /\ socketListener' = Nil
                     /\ conn[connection] = "open"
                     /\ conn'[connection] = "closed"
            /\ (pc'[c] = "SdCloseChan" /\ pc[c] # "SdCloseChan")
                  => (pc[c] = "SdNilConn" /\ connection' = Nil)
       /\ \A i \in Listeners :
            /\ conn'[i] # conn[i] /\ conn[i] # "none"
                  => \E c \in Ctx : /\ mu = c /\ pc[c] = "SdWait"
                                    /\ pc'[c] = "SdNilConn" /\ connection = i
            /\ (stoppedChan[i] = "open" /\ stoppedChan'[i] = "closed")
                  => /\ connection = Nil /\ socketListener = Nil
                     /\ conn[i] = "closed"]_vars

\* C17 witness: a teardown whose wait ended by the deadline (the receive loop
\* has not signalled) has closed the transport and set the handle to nil, and
\* is about to close the stopped-notification channel.
C17_Witness ==
    \E c \in Ctx :
        /\ pc[c] = "SdCloseChan" /\ mu = c
        /\ connection = Nil /\ socketListener = Nil
        /\ selfInstanceStoppedChan # Nil
        /\ stoppedChan[selfInstanceStoppedChan] = "open"
        /\ conn[selfInstanceStoppedChan] = "closed"
        /\ lstChan[selfInstanceStoppedChan] = "open"

\* C18: whenever the state lock is free, the handle is non-nil exactly if a
\* dialed transport is open, and then it refers to that transport; a dialed
\* transport changes once only, from open to closed.
C18_HandleIffOpen ==
    [][/\ mu' = NoCtx
            => /\ connection' # Nil <=> OpenTransports' # {}
               /\ OpenTransports' \subseteq {connection'}
       /\ \A i \in Listeners :
            (conn[i] # "none" /\ conn'[i] # conn[i])
                => (conn[i] = "open" /\ conn'[i] = "closed")]_vars

\* C18 witness: with the state lock free, the handle refers to the one open
\* transport, that of a session Start has returned successfully for.
C18_Witness ==
    /\ mu = NoCtx
    /\ connection \in startOK
    /\ OpenTransports = {connection}

\* Positions at which a goroutine is asking for the state lock, and for the
\* send lock.
WantsStateLock == {"StartLock", "StopLock"}

WantsSendLock == {"SendLock", "CsLock"}

\* C19: the goroutine that holds the send lock is inside Send or
\* sendCloseSignal, past the lock, and never asking for the state lock; it
\* holds the state lock as well only in Start's identity request and in the
\* teardown's close frame; and no two goroutines each wait for a lock the
\* other one holds.
C19_NoLockCycle ==
    /\ \A c \in Ctx :
          senderMutex = c
              => /\ pc[c] \in {"SendWrite", "SendWriting", "CsWriting"}
                 /\ pc[c] \notin WantsStateLock
                 /\ mu = c => \/ pc[c] = "CsWriting"
                              \/ c \in Threads /\ op[c] = "Start"
    /\ ~ \E c, d \in Ctx :
          /\ c # d
          /\ mu = c /\ pc[c] \in WantsSendLock
          /\ senderMutex = d /\ pc[d] \in WantsStateLock

\* C19 witness: a teardown holds the state lock and waits for the send lock,
\* which a Send that holds nothing else is holding.
C19_Witness ==
    \E c, d \in Ctx :
        /\ c # d
        /\ mu = c /\ pc[c] = "CsLock"
        /\ senderMutex = d /\ pc[d] = "SendWriting"

\* C20: a Start that returns no channel and no error resumes a live session:
\* the handle refers to a transport that an earlier Start returned
\* successfully for, and the stopped-notification channel of that session is
\* in the field and open.
C20_ResumeOnlyLiveSession ==
    [][\A t \in Threads :
         StartResume(t)
             => /\ connection \in startOK
                /\ selfInstanceStoppedChan = connection
                /\ stoppedChan[connection] = "open"]_vars

====
